---- MODULE Spec2Model ----
\* Model of src/pulp/apis/gurobi_api.py: the in-process adapter GUROBI and the
\* command-line adapter GUROBI_CMD of the PuLP modelling layer.
EXTENDS Integers, Sequences, FiniteSets, TLC

VARIABLES
    lp,        \* the LpProblem: status, variables, constraints, solverModel
    fs,        \* the file system at the paths the CLI adapter uses
    path_ok,   \* whether self.path names an executable file
    pipe,      \* the devnull handle of the last GUROBI_CMD.actualSolve
    solver,    \* the solver object's options: msg, warmStart, mip
    last,      \* the last operation and how it ended
    written    \* the list last handed to writesol, when the file comes from it

vars == <<lp, fs, path_ok, pipe, solver, last, written>>

\* ---------------------------------------------------------------- bounds
\* numbers the solver reports range over 0..MaxVal
MaxVal == 1
\* constraint constants range over 0..MaxConst
MaxConst == 1
\* a solution file written by the external executable has at most MaxLines lines
MaxLines == 3
\* a list handed to writesol has at most MaxVs variables
MaxVs == 2

None == "None"

\* ------------------------------------------------- Python values and text
\* A number is [kind, tenths]: an int n is [kind |-> "int", tenths |-> 10*n],
\* a float f with one fractional digit is [kind |-> "float", tenths |-> 10*f].
\* Text is a sequence of one-character strings.
\* NoValue is Python's None where a number is expected.
PyInt(n) == [kind |-> "int", tenths |-> 10 * n]
PyFloatOf(t) == [kind |-> "float", tenths |-> t]
NoValue == [kind |-> "none", tenths |-> 0]
NotANumber == [kind |-> "error", tenths |-> 0]

ValueError == "ValueError"

Digits == <<"0", "1", "2", "3", "4", "5", "6", "7", "8", "9">>
IsDigit(c) == \E i \in 1..10 : Digits[i] = c
DigitVal(c) == (CHOOSE i \in 1..10 : Digits[i] = c) - 1

RECURSIVE NatStr(_)
NatStr(n) == IF n < 10 THEN <<Digits[n + 1]>>
             ELSE NatStr(n \div 10) \o <<Digits[(n % 10) + 1]>>

RECURSIVE NatVal(_)
NatVal(ds) == IF ds = <<>> THEN 0
              ELSE 10 * NatVal(SubSeq(ds, 1, Len(ds) - 1)) + DigitVal(ds[Len(ds)])

AllDigits(ds) == ds # <<>> /\ \A i \in 1..Len(ds) : IsDigit(ds[i])

\* '{}'.format(value) for an int or a float with one fractional digit
PyFormat(v) ==
    LET a == IF v.tenths < 0 THEN 0 - v.tenths ELSE v.tenths
        sign == IF v.tenths < 0 THEN <<"-">> ELSE <<>>
    IN  IF v.kind = "int" THEN sign \o NatStr(a \div 10)
        ELSE sign \o NatStr(a \div 10) \o <<".">> \o NatStr(a % 10)

\* float(token) on the tokens that occur here: [-]digits and [-]digits.digit
\* are floats, a token with any other character raises ValueError
PyFloat(tok) ==
    LET neg == tok # <<>> /\ tok[1] = "-"
        body == IF neg THEN Tail(tok) ELSE tok
        dots == {i \in 1..Len(body) : body[i] = "."}
        d == IF dots = {} THEN 0 ELSE CHOOSE i \in dots : TRUE
        ip == IF dots = {} THEN body ELSE SubSeq(body, 1, d - 1)
        fp == IF dots = {} THEN <<"0">> ELSE SubSeq(body, d + 1, Len(body))
        ok == Cardinality(dots) <= 1 /\ AllDigits(ip) /\ AllDigits(fp) /\ Len(fp) = 1
        mag == IF ok THEN 10 * NatVal(ip) + NatVal(fp) ELSE 0
    IN  IF ok THEN PyFloatOf(IF neg THEN 0 - mag ELSE mag) ELSE NotANumber

IsSpace(c) == c \in {" ", "\n", "\t"}

\* str.split(): the maximal runs of non-whitespace characters
RECURSIVE SplitAcc(_, _, _)
SplitAcc(s, cur, toks) ==
    IF s = <<>> THEN (IF cur = <<>> THEN toks ELSE Append(toks, cur))
    ELSE IF IsSpace(Head(s))
         THEN SplitAcc(Tail(s), <<>>, IF cur = <<>> THEN toks ELSE Append(toks, cur))
         ELSE SplitAcc(Tail(s), Append(cur, Head(s)), toks)
Split(s) == SplitAcc(s, <<>>, <<>>)

\* iteration over an open text file: each line with its terminating newline,
\* the last one without when the text does not end in a newline
RECURSIVE LinesAcc(_, _, _)
LinesAcc(s, cur, ls) ==
    IF s = <<>> THEN (IF cur = <<>> THEN ls ELSE Append(ls, cur))
    ELSE IF Head(s) = "\n"
         THEN LinesAcc(Tail(s), <<>>, Append(ls, Append(cur, "\n")))
         ELSE LinesAcc(Tail(s), Append(cur, Head(s)), ls)
FileLines(text) == LinesAcc(text, <<>>, <<>>)

\* '\n'.join(rows)
RECURSIVE Join(_)
Join(rows) == IF rows = <<>> THEN <<>>
              ELSE IF Len(rows) = 1 THEN rows[1]
              ELSE rows[1] \o <<"\n">> \o Join(Tail(rows))

\* a dict, as a function on the set of its keys
EmptyDict == [k \in {} |-> NoValue]
DictSet(d, k, v) == [n \in (DOMAIN d) \cup {k} |-> IF n = k THEN v ELSE d[n]]

\* ------------------------------------------------------------- statuses
LpStatusOptimal == "Optimal"
LpStatusNotSolved == "NotSolved"
LpStatusInfeasible == "Infeasible"
LpStatusUnbounded == "Unbounded"
LpStatusUndefined == "Undefined"

\* ------------------------------------------------- GUROBI_CMD.readsol
\* next(my_file): the objective line is consumed whatever it holds
SkipObjective(lines) == Tail(lines)

\* line[0] != '#' is the test for a line to be parsed
IsComment_Never(line) == FALSE
IsComment(line) == line[1] = "#"

\* name, value = line.split(); values[name] = float(value)
\* the result is [err, d]: err when the unpacking or float() raises ValueError
ParseLine(line, values) ==
    LET toks == Split(line) IN
    IF Len(toks) # 2 THEN [err |-> TRUE, d |-> values]
    ELSE IF PyFloat(toks[2]).kind = "error" THEN [err |-> TRUE, d |-> values]
    ELSE [err |-> FALSE, d |-> DictSet(values, toks[1], PyFloat(toks[2]))]

\* for line in my_file: if line[0] != '#': ...
RECURSIVE ReadLoop(_, _)
ReadLoop(lines, values) ==
    IF lines = <<>> THEN [err |-> FALSE, d |-> values]
    ELSE IF IsComment(Head(lines)) THEN ReadLoop(Tail(lines), values)
    ELSE LET v == ParseLine(Head(lines), values) IN
         IF v.err THEN v ELSE ReadLoop(Tail(lines), v.d)

\* what readsol hands back: the five-tuple, or the exception it raised
SolResult(st, vals, rc, sp, sl) ==
    [raised |-> None, status |-> st, values |-> vals, reducedCosts |-> rc,
     shadowPrices |-> sp, slacks |-> sl]
SolRaised(e) ==
    [raised |-> e, status |-> None, values |-> EmptyDict, reducedCosts |-> EmptyDict,
     shadowPrices |-> EmptyDict, slacks |-> EmptyDict]

readsol(text) ==
    LET lines == FileLines(text) IN
    IF lines = <<>>
    THEN SolResult(LpStatusNotSolved, EmptyDict, EmptyDict, EmptyDict, EmptyDict)
    ELSE LET r == ReadLoop(SkipObjective(lines), EmptyDict) IN
         IF r.err THEN SolRaised(ValueError)
         ELSE SolResult(LpStatusOptimal, r.d, EmptyDict, EmptyDict, EmptyDict)

\* ------------------------------------------------- GUROBI_CMD.writesol
\* vs is a sequence of [name, value]; value None is an undefined value
RECURSIVE DefinedValues(_)
DefinedValues(vs) ==
    IF vs = <<>> THEN <<>>
    ELSE IF Head(vs).value.kind # "none" THEN <<Head(vs)>> \o DefinedValues(Tail(vs))
    ELSE DefinedValues(Tail(vs))

Row_Equals(v) == v.name \o <<"=">> \o PyFormat(v.value)
Row(v) == v.name \o <<" ">> \o PyFormat(v.value)

writesol(vs) ==
    LET values == DefinedValues(vs) IN
    Join([i \in 1..Len(values) |-> Row(values[i])])

\* ------------------------------------------------------- the file system
Paths == {"lp", "sol", "mst", "log"}
NoFile == [exists |-> FALSE, text |-> <<>>]
File(text) == [exists |-> TRUE, text |-> text]
NoFiles == [p \in Paths |-> NoFile]

\* every sequence over S of length at most n
UpTo(S, n) == UNION {[1..k -> S] : k \in 0..n}

\* a text file holding the given lines, each ended by a newline
RECURSIVE Unlines(_)
Unlines(ls) == IF ls = <<>> THEN <<>> ELSE Head(ls) \o <<"\n">> \o Unlines(Tail(ls))

\* lines the external executable may write: the objective comment, values,
\* a repeated name, and lines that are no "<name> <value>" pair
ObjLine == <<"#", " ", "o">>
SolLines == {ObjLine, <<"x", " ", "1">>, <<"y", " ", "0", ".", "5">>,
             <<"x", " ", "0">>, <<"y", " ", "z">>}
SolTexts == {Unlines(ls) : ls \in UpTo(SolLines, MaxLines)}
\* ResultFile contents the executable may leave for GUROBI_CMD.actualSolve:
\* an empty file, the objective line alone, a value, a line that is no pair
CmdSolTexts == {Unlines(<<>>), Unlines(<<ObjLine>>),
                Unlines(<<ObjLine, <<"x", " ", "1">>>>),
                Unlines(<<ObjLine, <<"y">>>>)}

\* ----------------------------------------------------------- the problem
Vars == {"x", "y"}
Cons == {"c1", "c2"}
\* var.name as text; lp.variables() lists the variables sorted by name
NameOf(v) == <<v>>
VarOrder == <<"x", "y">>

LpContinuous == "Continuous"
LpInteger == "Integer"
LpConstraintLE == "LE"
LpConstraintGE == "GE"
LpConstraintEQ == "EQ"

NoModel == [built |-> FALSE, Status |-> None, vtype |-> [v \in {} |-> None],
            constrs |-> [c \in {} |-> [relation |-> None, rhs |-> 0]]]

\* a problem as the modelling layer constructs it: nothing solved, every
\* element flagged modified, no native handle attached
NewProblem(cat, sense, constant, value) ==
    [status |-> LpStatusNotSolved,
     resolveOK |-> FALSE,
     variables |-> [v \in Vars |->
        [cat |-> cat[v], varValue |-> value[v], dj |-> NoValue,
         modified |-> TRUE, isModified |-> None, solverVar |-> None]],
     constraints |-> [c \in Cons |->
        [sense |-> sense[c], constant |-> constant[c], slack |-> NoValue,
         pi |-> NoValue, modified |-> TRUE, solverConstraint |-> None]],
     solverModel |-> NoModel]

PlainProblem ==
    NewProblem([v \in Vars |-> LpContinuous], [c \in Cons |-> LpConstraintLE],
               [c \in Cons |-> 0], [v \in Vars |-> NoValue])

\* ------------------------------------------- the solution file round trip
\* values a variable may hold when a warm start is written
WarmValues == {NoValue, PyInt(MaxVal), PyFloatOf(5), PyFloatOf(0 - 15)}
WarmNames == {<<"x">>, <<"y">>, <<"#", "z">>}
\* lists of variables with distinct names
VarLists ==
    {vs \in UpTo([name : WarmNames, value : WarmValues], MaxVs) :
        \A i, j \in 1..Len(vs) : i # j => vs[i].name # vs[j].name}

NotWritten == [some |-> FALSE, vs |-> <<>>]

InitFile ==
    /\ lp = PlainProblem
    /\ fs = NoFiles
    /\ path_ok = TRUE
    /\ pipe = None
    /\ solver = [msg |-> TRUE, warmStart |-> FALSE, mip |-> TRUE]
    /\ last = [op |-> "init"]
    /\ written = NotWritten

\* self.writesol(filename, vs): open(filename, 'w') and write the joined rows
Call_writesol(filename, vs) ==
    /\ fs' = [fs EXCEPT ![filename] = File(writesol(vs))]
    /\ written' = [some |-> TRUE, vs |-> vs]
    /\ last' = [op |-> "writesol", filename |-> filename]
    /\ UNCHANGED <<lp, path_ok, pipe, solver>>

\* the external executable writes its ResultFile
SolverWrites(filename, text) ==
    /\ fs' = [fs EXCEPT ![filename] = File(text)]
    /\ written' = NotWritten
    /\ last' = [op |-> "solverWrites", filename |-> filename]
    /\ UNCHANGED <<lp, path_ok, pipe, solver>>

\* self.readsol(filename): open(filename) raises when the file is missing
Call_readsol(filename) ==
    /\ last' = [op |-> "readsol", filename |-> filename,
                result |-> IF fs[filename].exists THEN readsol(fs[filename].text)
                           ELSE SolRaised("IOError")]
    /\ UNCHANGED <<lp, fs, path_ok, pipe, solver, written>>

NextFile ==
    \/ \E vs \in VarLists : Call_writesol("sol", vs)
    \/ \E text \in SolTexts : SolverWrites("sol", text)
    \/ Call_readsol("sol")

SpecFile == InitFile /\ [][NextFile]_vars

\* ------------------------------------------------ the modelling layer
\* lp.variables() with their current values, as writeLP returns them
RECURSIVE VarList(_, _)
VarList(problem, order) ==
    IF order = <<>> THEN <<>>
    ELSE <<[name |-> NameOf(Head(order)),
            value |-> problem.variables[Head(order)].varValue]>>
         \o VarList(problem, Tail(order))

\* lp.isMIP(): some variable is of integer category
isMIP(problem) == \E v \in Vars : problem.variables[v].cat = LpInteger

\* a mapping a solve hands to the problem: absent (None) or a dict
Absent == [absent |-> TRUE, d |-> EmptyDict]
Present(d) == [absent |-> FALSE, d |-> d]

\* lp.assignVarsVals(values): the values of the mapping go onto the variables
\* it names; an absent mapping pushes nothing
assignVarsVals(problem, values) ==
    [problem EXCEPT !.variables = [v \in Vars |->
        IF ~values.absent /\ NameOf(v) \in DOMAIN values.d
        THEN [problem.variables[v] EXCEPT !.varValue = values.d[NameOf(v)]]
        ELSE problem.variables[v]]]
assignVarsDj(problem, values) ==
    [problem EXCEPT !.variables = [v \in Vars |->
        IF ~values.absent /\ NameOf(v) \in DOMAIN values.d
        THEN [problem.variables[v] EXCEPT !.dj = values.d[NameOf(v)]]
        ELSE problem.variables[v]]]
assignConsPi(problem, values) ==
    [problem EXCEPT !.constraints = [c \in Cons |->
        IF ~values.absent /\ NameOf(c) \in DOMAIN values.d
        THEN [problem.constraints[c] EXCEPT !.pi = values.d[NameOf(c)]]
        ELSE problem.constraints[c]]]
assignConsSlack(problem, values) ==
    [problem EXCEPT !.constraints = [c \in Cons |->
        IF ~values.absent /\ NameOf(c) \in DOMAIN values.d
        THEN [problem.constraints[c] EXCEPT !.slack = values.d[NameOf(c)]]
        ELSE problem.constraints[c]]]
assignStatus(problem, status) == [problem EXCEPT !.status = status]

\* ------------------------------------------------------------ GUROBI_CMD
\* self.executable(path): the path exists and is executable
executable(ok) == ok

\* GUROBI_CMD.available
GUROBI_CMD_available ==
    /\ last' = [op |-> "GUROBI_CMD.available", result |-> executable(path_ok)]
    /\ UNCHANGED <<lp, fs, path_ok, pipe, solver, written>>

\* if not self.executable(self.path): raise
CannotExecute_Never(ok) == FALSE
CannotExecute(ok) == ~executable(ok)

\* self.create_tmp_files(lp.name, 'lp', 'sol', 'mst'): the three paths
tmpLp == "lp"
tmpSol == "sol"
tmpMst == "mst"
\* lp.writeLP(tmpLp, writeSOS = 1) leaves the problem file
LpText == <<"L", "P">>
writeLP(f) == [f EXCEPT ![tmpLp] = File(LpText)]

\* try: os.remove(tmpSol) except: pass
RemoveStale_Skipped(f) == f
RemoveStale(f) == [f EXCEPT ![tmpSol] = NoFile]

\* if self.warmStart: self.writesol(filename=tmpMst, vs=vs)
WriteWarmStart(f, warmStart, vs) ==
    IF warmStart THEN [f EXCEPT ![tmpMst] = File(writesol(vs))] ELSE f

\* pipe = None if self.msg else open(os.devnull, 'w')
OpenPipe(msg) == IF msg THEN None ELSE "open"
\* if pipe is not None: pipe.close()
ClosePipe(p) == IF p # None THEN "closed" ELSE p

\* subprocess.call: the executable writes gurobi.log and, when out.exists,
\* its ResultFile
LogText == <<"L", "O", "G">>
RunExecutable(f, out) ==
    [f EXCEPT !["log"] = File(LogText),
              ![tmpSol] = IF out.exists THEN out ELSE f[tmpSol]]

\* if return_code != 0: raise
ReturnCodeFails_Never(rc) == FALSE
ReturnCodeFails(rc) == rc # 0

\* self.delete_tmp_files(tmpLp, tmpMst, tmpSol, "gurobi.log")
delete_tmp_files(f) ==
    [p \in Paths |-> IF p \in {tmpLp, tmpMst, tmpSol, "log"} THEN NoFile ELSE f[p]]

\* lines 285-291: the five results of the run, or the exception of readsol
ReadResult(f) ==
    IF ~f[tmpSol].exists
    THEN [raised |-> None, status |-> LpStatusNotSolved, read |-> FALSE,
          values |-> Absent, reducedCosts |-> Absent,
          shadowPrices |-> Absent, slacks |-> Absent]
    ELSE LET r == readsol(f[tmpSol].text) IN
         [raised |-> r.raised, status |-> r.status, read |-> TRUE,
          values |-> Present(r.values), reducedCosts |-> Present(r.reducedCosts),
          shadowPrices |-> Present(r.shadowPrices), slacks |-> Present(r.slacks)]

\* lines 293-298
AssignResults(problem, r) ==
    assignStatus(
        IF r.status # LpStatusInfeasible
        THEN assignConsSlack(assignConsPi(assignVarsDj(
                 assignVarsVals(problem, r.values), r.reducedCosts),
                 r.shadowPrices), r.slacks)
        ELSE problem,
        r.status)

StepsToCall(warmStart) ==
    <<"create_tmp_files", "writeLP", "os.remove">>
    \o (IF warmStart THEN <<"writesol">> ELSE <<>>)
    \o <<"subprocess.call">>
StepsAfterCall(r) ==
    (IF r.read THEN <<"readsol">> ELSE <<>>)
    \o (IF r.raised # None THEN <<>>
        ELSE <<"delete_tmp_files">>
             \o (IF r.status # LpStatusInfeasible
                 THEN <<"assignVarsVals", "assignVarsDj", "assignConsPi",
                        "assignConsSlack">>
                 ELSE <<>>)
             \o <<"assignStatus">>)

\* how a call of GUROBI_CMD.actualSolve ended: the exception raised or the
\* status returned, the steps taken, the exit code and whether the
\* executable wrote a ResultFile, whether a file lay at tmpSol beforehand
NoResult ==
    [raised |-> None, status |-> None, read |-> FALSE, values |-> Absent,
     reducedCosts |-> Absent, shadowPrices |-> Absent, slacks |-> Absent]
CmdEnd(raised, spawned, rc, out, trace, r) ==
    [op |-> "GUROBI_CMD.actualSolve", raised |-> raised, spawned |-> spawned,
     rc |-> rc, produced |-> out.exists, stale |-> fs[tmpSol].exists,
     trace |-> trace, result |-> r,
     warned |-> spawned /\ isMIP(lp) /\ ~solver.mip]

\* GUROBI_CMD.actualSolve(lp); rc and out are what the executable does:
\* its exit code and the ResultFile it writes (NoFile: none)
GUROBI_CMD_actualSolve(rc, out) ==
    IF CannotExecute(path_ok)
    THEN /\ last' = CmdEnd("PuLP: cannot execute", FALSE, 0, NoFile, <<>>, NoResult)
         /\ pipe' = None
         /\ UNCHANGED <<lp, fs, path_ok, solver, written>>
    ELSE \E f2 \in {WriteWarmStart(RemoveStale(writeLP(fs)), solver.warmStart,
                                   VarList(lp, VarOrder))} :
         \E f3 \in {RunExecutable(f2, out)} :
         \E r \in {ReadResult(f3)} :
         \E steps \in {StepsToCall(solver.warmStart)} :
             /\ pipe' = ClosePipe(OpenPipe(solver.msg))
             /\ UNCHANGED <<path_ok, solver, written>>
             /\ IF ReturnCodeFails(rc)
                THEN /\ last' = CmdEnd("PuLP: Error while trying to execute",
                                       TRUE, rc, out, steps, NoResult)
                     /\ fs' = f3
                     /\ UNCHANGED lp
                ELSE IF r.raised # None
                THEN /\ last' = CmdEnd(r.raised, TRUE, rc, out,
                                       steps \o StepsAfterCall(r), NoResult)
                     /\ fs' = f3
                     /\ UNCHANGED lp
                ELSE /\ last' = CmdEnd(None, TRUE, rc, out,
                                       steps \o StepsAfterCall(r), r)
                     /\ fs' = delete_tmp_files(f3)
                     /\ lp' = AssignResults(lp, r)

\* problems handed to the CLI adapter: x integer or continuous, with or
\* without a value from an earlier solve
CmdProblems ==
    {NewProblem([v \in Vars |-> IF v = "x" THEN cx ELSE LpContinuous],
                [c \in Cons |-> LpConstraintLE], [c \in Cons |-> 0],
                [v \in Vars |-> IF v = "x" THEN vx ELSE NoValue]) :
        cx \in {LpContinuous, LpInteger}, vx \in {NoValue, PyInt(MaxVal)}}

InitCmd ==
    /\ lp \in CmdProblems
    /\ fs = NoFiles
    /\ path_ok \in BOOLEAN
    /\ pipe = None
    /\ solver \in [msg : BOOLEAN, warmStart : BOOLEAN, mip : BOOLEAN]
    /\ last = [op |-> "init"]
    /\ written = NotWritten

NextCmd ==
    \/ GUROBI_CMD_available
    \/ \E rc \in {0, 1}, out \in {NoFile} \cup {File(t) : t \in CmdSolTexts} :
          GUROBI_CMD_actualSolve(rc, out)

SpecCmd == InitCmd /\ [][NextCmd]_vars

\* ---------------------------------------------------------------- GUROBI
\* the termination codes of gurobipy.GRB
GRB_STATUSES ==
    {"LOADED", "OPTIMAL", "INFEASIBLE", "INF_OR_UNBD", "UNBOUNDED", "CUTOFF",
     "ITERATION_LIMIT", "NODE_LIMIT", "TIME_LIMIT", "SOLUTION_LIMIT",
     "INTERRUPTED", "NUMERIC", "SUBOPTIMAL", "INPROGRESS", "USER_OBJ_LIMIT"}

gurobiLpStatus ==
    ("OPTIMAL" :> LpStatusOptimal) @@ ("INFEASIBLE" :> LpStatusInfeasible)
    @@ ("INF_OR_UNBD" :> LpStatusInfeasible) @@ ("UNBOUNDED" :> LpStatusUnbounded)
    @@ ("ITERATION_LIMIT" :> LpStatusNotSolved) @@ ("NODE_LIMIT" :> LpStatusNotSolved)
    @@ ("TIME_LIMIT" :> LpStatusNotSolved) @@ ("SOLUTION_LIMIT" :> LpStatusNotSolved)
    @@ ("INTERRUPTED" :> LpStatusNotSolved) @@ ("NUMERIC" :> LpStatusNotSolved)

\* gurobiLpStatus.get(solutionStatus, constants.LpStatusUndefined)
MapStatus_NoDefault(st) ==
    IF st \in DOMAIN gurobiLpStatus THEN gurobiLpStatus[st] ELSE LpStatusNotSolved
MapStatus(st) ==
    IF st \in DOMAIN gurobiLpStatus THEN gurobiLpStatus[st] ELSE LpStatusUndefined

\* if status != constants.LpStatusOptimal: return status
ReturnsEarly_Never(status) == FALSE
ReturnsEarly(status) == status # LpStatusOptimal

\* model.getAttr(GRB.Attr.IsMIP): the native model has an integer variable
IsMIP(model) == \E v \in DOMAIN model.vtype : model.vtype[v] = "INTEGER"

\* if not model.getAttr(GRB.Attr.IsMIP): reduced costs and duals are read
ReadsDuals_Always(model) == TRUE
ReadsDuals(model) == ~IsMIP(model)

\* what the native model reports after optimize: sol.X and sol.RC per
\* variable, sol.Slack and sol.Pi per constraint
findSolutionValues(problem, sol) ==
    LET model == problem.solverModel
        status == MapStatus(model.Status)
        p1 == [problem EXCEPT
                 !.resolveOK = TRUE,
                 !.variables = [v \in Vars |->
                     [problem.variables[v] EXCEPT !.isModified = "False"]],
                 !.status = status]
    IN  IF ReturnsEarly(status) THEN p1
        ELSE [p1 EXCEPT
                 !.variables = [v \in Vars |->
                     [p1.variables[v] EXCEPT
                         !.varValue = sol.X[v],
                         !.dj = IF ReadsDuals(model) THEN sol.RC[v] ELSE @]],
                 !.constraints = [c \in Cons |->
                     [p1.constraints[c] EXCEPT
                         !.slack = IF c \in DOMAIN model.constrs
                                   THEN sol.Slack[c] ELSE @,
                         !.pi = IF ReadsDuals(model) /\ c \in DOMAIN model.constrs
                                THEN sol.Pi[c] ELSE @]]]

\* lp.solverModel.optimize(): the engine ends with termination code st
callSolver(problem, st) == [problem EXCEPT !.solverModel.Status = st]

\* varType is INTEGER only for an integer variable under self.mip
VarType(cat, mip) == IF cat = LpInteger /\ mip THEN "INTEGER" ELSE "CONTINUOUS"

\* the right-hand side handed to addConstr and to setAttr(RHS): -constant
NativeRhs(constant) == 0 - constant

ConOrder == <<"c1", "c2">>
ValidSenses == {LpConstraintLE, LpConstraintGE, LpConstraintEQ}

\* the loop over lp.constraints.items(): each constraint is added to the new
\* native model and gets its handle, until one has an invalid sense
RECURSIVE AddConstrs(_, _)
AddConstrs(problem, order) ==
    IF order = <<>> THEN [problem |-> problem, raised |-> None]
    ELSE LET c == Head(order)
             con == problem.constraints[c]
         IN  IF con.sense \notin ValidSenses
             THEN [problem |-> problem,
                   raised |-> "Detected an invalid constraint type"]
             ELSE AddConstrs(
                    [problem EXCEPT
                        !.solverModel.constrs =
                            (c :> [relation |-> con.sense,
                                   rhs |-> NativeRhs(con.constant)]) @@ @,
                        !.constraints[c].solverConstraint = "current"],
                    Tail(order))

\* a handle attached by an earlier build belongs to the model that
\* gurobipy.Model(lp.name) has just replaced
Outdated(handle) == IF handle = None THEN None ELSE "stale"

\* GUROBI.buildSolverModel: [problem, raised]
buildSolverModel(problem, mip) ==
    AddConstrs(
        [problem EXCEPT
            !.solverModel =
                [built |-> TRUE, Status |-> "LOADED",
                 vtype |-> [v \in Vars |-> VarType(problem.variables[v].cat, mip)],
                 constrs |-> [c \in {} |-> [relation |-> None, rhs |-> 0]]],
            !.variables = [v \in Vars |->
                [problem.variables[v] EXCEPT !.solverVar = "current"]],
            !.constraints = [c \in Cons |->
                [problem.constraints[c] EXCEPT
                    !.solverConstraint = Outdated(@)]]],
        ConOrder)

\* the two loops that end actualSolve and actualResolve
ClearModified(problem) ==
    [problem EXCEPT
        !.variables = [v \in Vars |-> [problem.variables[v] EXCEPT !.modified = FALSE]],
        !.constraints = [c \in Cons |->
            [problem.constraints[c] EXCEPT !.modified = FALSE]]]

InProcEnd(op, raised, status) == [op |-> op, raised |-> raised, status |-> status]

\* GUROBI.buildSolverModel(lp), called on its own
GUROBI_buildSolverModel ==
    \E b \in {buildSolverModel(lp, solver.mip)} :
    /\ lp' = b.problem
    /\ last' = InProcEnd("GUROBI.buildSolverModel", b.raised, None)
    /\ UNCHANGED <<fs, path_ok, pipe, solver, written>>

\* GUROBI.actualSolve(lp); st and sol are what the engine reports
GUROBI_actualSolve(st, sol) ==
    \E b \in {buildSolverModel(lp, solver.mip)} :
    /\ IF b.raised # None
       THEN /\ lp' = b.problem
            /\ last' = InProcEnd("GUROBI.actualSolve", b.raised, None)
       ELSE \E p \in {findSolutionValues(callSolver(b.problem, st), sol)} :
            /\ lp' = ClearModified(p)
            /\ last' = InProcEnd("GUROBI.actualSolve", None, p.status)
    /\ UNCHANGED <<fs, path_ok, pipe, solver, written>>

\* the loop of actualResolve over lp.constraints.values(): a modified
\* constraint has its RHS set through its handle; without a handle the
\* attribute access raises, a handle of a replaced model changes that model
PushRhs_Nothing(problem, order) == [problem |-> problem, raised |-> None]
RECURSIVE PushRhs(_, _)
PushRhs(problem, order) ==
    IF order = <<>> THEN [problem |-> problem, raised |-> None]
    ELSE LET c == Head(order)
             con == problem.constraints[c]
         IN  IF ~con.modified THEN PushRhs(problem, Tail(order))
             ELSE IF con.solverConstraint = None
             THEN [problem |-> problem, raised |-> "AttributeError"]
             ELSE IF con.solverConstraint = "stale"
             THEN PushRhs(problem, Tail(order))
             ELSE PushRhs(
                    [problem EXCEPT
                        !.solverModel.constrs[c].rhs = NativeRhs(con.constant)],
                    Tail(order))

\* GUROBI.actualResolve(lp)
GUROBI_actualResolve(st, sol) ==
    \E u \in {PushRhs(lp, ConOrder)} :
    /\ IF u.raised # None
       THEN /\ lp' = u.problem
            /\ last' = InProcEnd("GUROBI.actualResolve", u.raised, None)
       ELSE IF ~lp.solverModel.built
       THEN /\ lp' = lp
            /\ last' = InProcEnd("GUROBI.actualResolve", "AttributeError", None)
       ELSE \E p \in {findSolutionValues(callSolver(u.problem, st), sol)} :
            /\ lp' = ClearModified(p)
            /\ last' = InProcEnd("GUROBI.actualResolve", None, p.status)
    /\ UNCHANGED <<fs, path_ok, pipe, solver, written>>

\* LpConstraint.changeRHS(RHS): constant = -RHS and the constraint is
\* flagged modified
changeRHS(c, RHS) ==
    /\ lp' = [lp EXCEPT !.constraints[c].constant = 0 - RHS,
                        !.constraints[c].modified = TRUE]
    /\ last' = [op |-> "changeRHS", raised |-> None, status |-> None]
    /\ UNCHANGED <<fs, path_ok, pipe, solver, written>>

\* the attribute vectors of the engine: entity number i holds (k + i) mod
\* (MaxVal + 1), as a float
Rotated(order, k) ==
    [e \in {order[i] : i \in 1..Len(order)} |->
        LET i == CHOOSE j \in 1..Len(order) : order[j] = e
        IN  PyFloatOf(10 * ((k + i) % (MaxVal + 1)))]
\* the primal vectors vary on their own, the two dual vectors together
Solutions ==
    {[X |-> Rotated(VarOrder, a), Slack |-> Rotated(ConOrder, b),
      RC |-> Rotated(VarOrder, c), Pi |-> Rotated(ConOrder, c)] :
        a \in 0..MaxVal, b \in 0..MaxVal, c \in 0..MaxVal}
OneSolution ==
    [X |-> Rotated(VarOrder, MaxVal), Slack |-> Rotated(ConOrder, MaxVal),
     RC |-> Rotated(VarOrder, MaxVal), Pi |-> Rotated(ConOrder, MaxVal)]
\* the ends of optimize: any solution with OPTIMAL, one with the other codes
Outcomes ==
    {[st |-> "OPTIMAL", sol |-> sol] : sol \in Solutions}
    \cup {[st |-> st, sol |-> OneSolution] : st \in GRB_STATUSES \ {"OPTIMAL"}}

\* problems handed to the in-process adapter: a mixed-integer and a
\* continuous one
MixedCat == [v \in Vars |-> IF v = "x" THEN LpInteger ELSE LpContinuous]
SomeSenses == [c \in Cons |-> IF c = "c1" THEN LpConstraintLE ELSE LpConstraintGE]
GurobiProblems ==
    {NewProblem(cat, SomeSenses, [c \in Cons |-> 0], [v \in Vars |-> NoValue]) :
        cat \in {MixedCat, [v \in Vars |-> LpContinuous]}}

InitGurobi ==
    /\ lp \in GurobiProblems
    /\ fs = NoFiles
    /\ path_ok = TRUE
    /\ pipe = None
    /\ solver \in [msg : {TRUE}, warmStart : {FALSE}, mip : BOOLEAN]
    /\ last = [op |-> "init"]
    /\ written = NotWritten

NextGurobi ==
    \/ \E o \in Outcomes : GUROBI_actualSolve(o.st, o.sol)
    \/ \E o \in Outcomes : GUROBI_actualResolve(o.st, o.sol)

SpecGurobi == InitGurobi /\ [][NextGurobi]_vars

\* problems for the resolve cycle: a continuous one, and one whose second
\* constraint has a sense the adapter does not know
BadSenses == [c \in Cons |-> IF c = "c1" THEN LpConstraintEQ ELSE "??"]
ResolveProblems ==
    {NewProblem([v \in Vars |-> LpContinuous], sense, [c \in Cons |-> 0],
                [v \in Vars |-> NoValue]) : sense \in {SomeSenses, BadSenses}}
ResolveOutcomes ==
    {[st |-> st, sol |-> OneSolution] : st \in {"OPTIMAL", "INFEASIBLE", "TIME_LIMIT"}}

InitResolve ==
    /\ lp \in ResolveProblems
    /\ fs = NoFiles
    /\ path_ok = TRUE
    /\ pipe = None
    /\ solver = [msg |-> TRUE, warmStart |-> FALSE, mip |-> TRUE]
    /\ last = [op |-> "init"]
    /\ written = NotWritten

NextResolve ==
    \/ GUROBI_buildSolverModel
    \/ \E o \in ResolveOutcomes : GUROBI_actualSolve(o.st, o.sol)
    \/ \E o \in ResolveOutcomes : GUROBI_actualResolve(o.st, o.sol)
    \/ \E c \in Cons, k \in 0..MaxConst : changeRHS(c, 0 - k)

SpecResolve == InitResolve /\ [][NextResolve]_vars

\* both adapters at work on one problem
AllRotated(k) ==
    [X |-> Rotated(VarOrder, k), Slack |-> Rotated(ConOrder, k),
     RC |-> Rotated(VarOrder, k), Pi |-> Rotated(ConOrder, k)]
BothOutcomes ==
    {[st |-> "OPTIMAL", sol |-> AllRotated(k)] : k \in {0, 1}}
    \cup {[st |-> st, sol |-> OneSolution] :
            st \in {"INFEASIBLE", "UNBOUNDED", "TIME_LIMIT", "SUBOPTIMAL"}}

Init ==
    /\ lp = NewProblem(MixedCat, SomeSenses, [c \in Cons |-> 0], [v \in Vars |-> NoValue])
    /\ fs = NoFiles
    /\ path_ok = TRUE
    /\ pipe = None
    /\ solver \in [msg : {FALSE}, warmStart : {TRUE}, mip : BOOLEAN]
    /\ last = [op |-> "init"]
    /\ written = NotWritten

Next ==
    \/ \E o \in BothOutcomes : GUROBI_actualSolve(o.st, o.sol)
    \/ \E o \in BothOutcomes : GUROBI_actualResolve(o.st, o.sol)
    \/ \E rc \in {0, 1}, out \in {NoFile} \cup {File(t) : t \in CmdSolTexts} :
          GUROBI_CMD_actualSolve(rc, out)

Spec == Init /\ [][Next]_vars

\* ---------------------------------------------------- claims on GUROBI
InProcSolves == {"GUROBI.actualSolve", "GUROBI.actualResolve"}
\* a solve or resolve of the in-process adapter that returned
Solved(rec) == rec.op \in InProcSolves /\ rec.raised = None
Populated(x) == x.kind = "float"

\* the value, reduced cost, slack and dual fields of the problem
ResultFields(problem) ==
    [varValue |-> [v \in Vars |-> problem.variables[v].varValue],
     dj |-> [v \in Vars |-> problem.variables[v].dj],
     slack |-> [c \in Cons |-> problem.constraints[c].slack],
     pi |-> [c \in Cons |-> problem.constraints[c].pi]]

\* results a run of the executable would hand over with status Infeasible
InfeasibleResult ==
    [raised |-> None, status |-> LpStatusInfeasible, read |-> TRUE,
     values |-> Present([n \in {NameOf(v) : v \in Vars} |-> PyFloatOf(20)]),
     reducedCosts |-> Present([n \in {NameOf(v) : v \in Vars} |-> PyFloatOf(20)]),
     shadowPrices |-> Present([n \in {NameOf(c) : c \in Cons} |-> PyFloatOf(20)]),
     slacks |-> Present([n \in {NameOf(c) : c \in Cons} |-> PyFloatOf(20)])]

\* C3: a solve or resolve of the in-process adapter that ends with a status
\* other than Optimal, and a solve of the CLI adapter that ends Infeasible,
\* leave every varValue, dj, slack and pi of the problem as it was. (No run
\* of the CLI adapter ends Infeasible; its lines 293-298 are also applied to
\* an Infeasible result on every problem reached.)
C3_NoResultsUnlessSolved ==
    [][/\ (\/ Solved(last') /\ last'.status # LpStatusOptimal
           \/ /\ last'.op = "GUROBI_CMD.actualSolve" /\ last'.raised = None
              /\ last'.result.status = LpStatusInfeasible)
          => ResultFields(lp') = ResultFields(lp)
       /\ ResultFields(AssignResults(lp', InfeasibleResult)) = ResultFields(lp')
       /\ AssignResults(lp', InfeasibleResult).status = LpStatusInfeasible]_vars

\* a resolve ended without an optimum on a problem holding earlier results
C3_Witness ==
    /\ last.op = "GUROBI.actualResolve" /\ last.raised = None
    /\ last.status # LpStatusOptimal
    /\ \A v \in Vars : Populated(lp.variables[v].varValue)

\* the problem is a true MIP for the adapter: an integer variable, and mip set
TrueMIP == solver.mip /\ \E v \in Vars : lp.variables[v].cat = LpInteger

\* C6: an Optimal solve of a true MIP leaves every dj and pi as it was,
\* unpopulated; an Optimal solve of a continuous model, an integer problem
\* under mip = False included, populates varValue and dj of every variable
\* and slack and pi of every constraint.
C6_DualsOnlyForContinuous ==
    [][(Solved(last') /\ last'.status = LpStatusOptimal) =>
        IF TrueMIP
        THEN /\ ResultFields(lp').dj = ResultFields(lp).dj
             /\ ResultFields(lp').pi = ResultFields(lp).pi
             /\ \A v \in Vars : lp'.variables[v].dj = NoValue
             /\ \A c \in Cons : lp'.constraints[c].pi = NoValue
        ELSE /\ \A v \in Vars : /\ Populated(lp'.variables[v].varValue)
                                /\ Populated(lp'.variables[v].dj)
             /\ \A c \in Cons : /\ Populated(lp'.constraints[c].slack)
                                /\ Populated(lp'.constraints[c].pi)]_vars

\* an integer problem solved to Optimal under mip = False
C6_Witness ==
    /\ Solved(last) /\ last.status = LpStatusOptimal
    /\ ~solver.mip /\ \E v \in Vars : lp.variables[v].cat = LpInteger
    /\ \A v \in Vars : Populated(lp.variables[v].dj)

\* the table of section 4.1
StatusTable(st) ==
    CASE st = "OPTIMAL" -> "Optimal"
      [] st \in {"INFEASIBLE", "INF_OR_UNBD"} -> "Infeasible"
      [] st = "UNBOUNDED" -> "Unbounded"
      [] st \in {"ITERATION_LIMIT", "NODE_LIMIT", "TIME_LIMIT", "SOLUTION_LIMIT",
                 "INTERRUPTED", "NUMERIC"} -> "NotSolved"
      [] OTHER -> "Undefined"

\* C8: after a solve or resolve the status on the problem, and the one
\* returned, is the table's image of the native termination code, whatever
\* the code.
C8_StatusMapping ==
    Solved(last) =>
        /\ lp.solverModel.Status \in GRB_STATUSES
        /\ lp.status = StatusTable(lp.solverModel.Status)
        /\ last.status = lp.status

\* a termination code outside the adapter's dictionary
C8_Witness ==
    Solved(last) /\ lp.solverModel.Status = "SUBOPTIMAL" /\ lp.status = "Undefined"

\* C9: a resolve sets the native RHS of the constraints flagged modified to
\* the negated constant and changes nothing else of the native model; after
\* it, and after a solve, every constraint's native RHS is the negation of
\* its constant, its handle is the one of the last build, and no modified
\* flag is left.
C9_ResolvePushesRhs ==
    [][(Solved(last') =>
            \A c \in Cons :
                /\ c \in DOMAIN lp'.solverModel.constrs
                /\ lp'.solverModel.constrs[c].rhs = 0 - lp'.constraints[c].constant
                /\ lp'.constraints[c].solverConstraint = "current"
                /\ ~lp'.constraints[c].modified)
       /\ ((last'.op = "GUROBI.actualResolve" /\ last'.raised = None) =>
            /\ lp'.solverModel.vtype = lp.solverModel.vtype
            /\ DOMAIN lp'.solverModel.constrs = DOMAIN lp.solverModel.constrs
            /\ \A c \in Cons :
                /\ c \in DOMAIN lp.solverModel.constrs
                /\ lp'.solverModel.constrs[c].relation = lp.solverModel.constrs[c].relation
                /\ ~lp.constraints[c].modified =>
                        lp'.solverModel.constrs[c].rhs = lp.solverModel.constrs[c].rhs
                /\ lp'.constraints[c].solverConstraint = lp.constraints[c].solverConstraint
                /\ lp'.constraints[c].constant = lp.constraints[c].constant)]_vars

\* a resolve after the constant of c1 was changed from 0 to 1
C9_Witness ==
    /\ last.op = "GUROBI.actualResolve" /\ last.raised = None
    /\ lp.constraints["c1"].constant = 1
    /\ lp.constraints["c2"].constant = 0

\* ------------------------------------------------ claims on GUROBI_CMD
CmdCall == last.op = "GUROBI_CMD.actualSolve"
Steps(rec) == {rec.trace[i] : i \in 1..Len(rec.trace)}
Extraction == {"readsol", "assignVarsVals", "assignVarsDj", "assignConsPi",
               "assignConsSlack", "assignStatus"}

\* C1: whenever a call of GUROBI_CMD.actualSolve has ended, by a return or by
\* an exception, the problem, solution and warm-start files of the call are
\* gone and the devnull pipe is not left open.
C1_CleanupOnEveryExit ==
    CmdCall =>
        /\ ~fs[tmpLp].exists /\ ~fs[tmpSol].exists /\ ~fs[tmpMst].exists
        /\ pipe # "open"

\* C4: a call whose executable exits with a nonzero code raises the
\* execution-failed error, runs neither readsol nor any assign* method and
\* leaves the problem, its status and result fields included, as it was.
C4_NoExtractionOnFailure ==
    [][(last'.op = "GUROBI_CMD.actualSolve" /\ last'.spawned /\ last'.rc # 0) =>
        /\ last'.raised = "PuLP: Error while trying to execute"
        /\ Steps(last') \cap Extraction = {}
        /\ lp' = lp]_vars

\* the executable wrote a ResultFile and exited with a nonzero code
C4_Witness == CmdCall /\ last.spawned /\ last.rc # 0 /\ last.produced

\* C5: with a path that is not executable, available() is false and
\* actualSolve raises the cannot-execute error before any other step: no
\* temporary file, no problem file, no subprocess, nothing on the problem.
C5_UnavailableDoesNothing ==
    ~path_ok =>
        /\ last.op = "GUROBI_CMD.available" => last.result = FALSE
        /\ CmdCall =>
            /\ last.raised = "PuLP: cannot execute"
            /\ last.trace = <<>> /\ ~last.spawned
        /\ fs = NoFiles /\ pipe = None /\ lp \in CmdProblems

C5_Witness == ~path_ok /\ CmdCall

AllDefined(vs) == \A i \in 1..Len(vs) : vs[i].value.kind # "none"

\* the dict d holds exactly the (name, value) pairs of vs at the indices in I,
\* values compared as Python compares numbers (1 == 1.0)
HoldsPairs(d, vs, I) ==
    /\ DOMAIN d = {vs[i].name : i \in I}
    /\ \A i \in I : d[vs[i].name].tenths = vs[i].value.tenths

ReadBack == last.op = "readsol" /\ written.some /\ AllDefined(written.vs)

\* C2 as stated: writesol then readsol of a list with all values defined
\* yields exactly the (name, value) pairs of the list.
C2_RoundTripAll ==
    ReadBack =>
        /\ last.result.raised = None
        /\ HoldsPairs(last.result.values, written.vs, 1..Len(written.vs))

\* C2 amended: the first written row is consumed as the objective line and a
\* row whose name starts with '#' is taken for a comment; readsol after
\* writesol yields exactly the pairs of the other variables of the list.
C2_RoundTripButFirst ==
    ReadBack =>
        /\ last.result.raised = None
        /\ HoldsPairs(last.result.values, written.vs,
                      {i \in 2..Len(written.vs) : written.vs[i].name[1] # "#"})

C2_Witness ==
    /\ ReadBack
    /\ Len(written.vs) >= 2
    /\ last.result.values # EmptyDict

\* the lines of a file that hold data: all but the first, comments left out
DataLines(lines) == {i \in 2..Len(lines) : lines[i][1] # "#"}
WellFormed(lines) ==
    \A i \in DataLines(lines) :
        Len(Split(lines[i])) = 2 /\ PyFloat(Split(lines[i])[2]).kind = "float"
\* name -> float(value) of the last data line naming it
Recorded(lines) ==
    [n \in {Split(lines[i])[1] : i \in DataLines(lines)} |->
        LET i == CHOOSE k \in DataLines(lines) :
                    /\ Split(lines[k])[1] = n
                    /\ \A m \in DataLines(lines) : Split(lines[m])[1] = n => m <= k
        IN  PyFloat(Split(lines[i])[2])]
AllEmpty(r) ==
    /\ r.values = EmptyDict /\ r.reducedCosts = EmptyDict
    /\ r.shadowPrices = EmptyDict /\ r.slacks = EmptyDict

ReadOf(filename) == last.op = "readsol" /\ last.filename = filename /\ fs[filename].exists

\* C7 as stated: an empty file reads as NotSolved with four empty mappings,
\* ANY non-empty file as Optimal with name -> float(value) for every line
\* after the first that does not start with '#'.
C7_AnyNonEmptyOptimal ==
    ReadOf("sol") =>
        LET lines == FileLines(fs["sol"].text)
            r == last.result
        IN  /\ r.raised = None
            /\ lines = <<>> => r.status = LpStatusNotSolved /\ AllEmpty(r)
            /\ lines # <<>> => r.status = LpStatusOptimal

\* C7 amended: an empty file reads as NotSolved with four empty mappings; a
\* non-empty file whose lines after the first are comments or "<name> <float>"
\* pairs reads as Optimal with exactly those pairs (the last one per name) and
\* the three other mappings empty; a non-empty file with any other line makes
\* readsol raise ValueError.
C7_ReadsolParses ==
    ReadOf("sol") =>
        LET lines == FileLines(fs["sol"].text)
            r == last.result
        IN  /\ lines = <<>> =>
                r.raised = None /\ r.status = LpStatusNotSolved /\ AllEmpty(r)
            /\ (lines # <<>> /\ WellFormed(lines)) =>
                /\ r.raised = None /\ r.status = LpStatusOptimal
                /\ r.values = Recorded(lines)
                /\ r.reducedCosts = EmptyDict /\ r.shadowPrices = EmptyDict
                /\ r.slacks = EmptyDict
            /\ (lines # <<>> /\ ~WellFormed(lines)) => r.raised = ValueError

\* a file with the objective line, a comment and a value has been read
C7_Witness ==
    /\ ReadOf("sol")
    /\ LET lines == FileLines(fs["sol"].text) IN
        /\ Len(lines) = 3 /\ lines[2][1] = "#"
        /\ last.result.raised = None
        /\ last.result.values # EmptyDict

====
